---- MODULE Spec2Model ----
(***************************************************************************)
(* local-gitingest: the directory walk of buildDirectoryStructure, the     *)
(* serializer writeOutput and the control flow of main (src/main.go).      *)
(* Strings are sequences of one-character strings, so that prefixes,       *)
(* extensions, separators and the output stream are computed, not assumed. *)
(* A path is the sequence of names below the root; the root is <<>>.       *)
(***************************************************************************)
EXTENDS Integers, Sequences, FiniteSets, TLC

\* ------------------------------------------------------------------ bounds
MaxEntries == 2
MaxSizeLimit == 2
MaxSerFiles == 2

\* ------------------------------------------------------- program constants
SepWidth == 48
IndentWidth == 4
DefaultMaxSize == 51200

\* ------------------------------------------------------------ string tools
Dot == <<".">>
DotSlash == <<".", "/">>
Slash == <<"/">>
NL == <<"\n">>
DotGit == <<".", "g", "i", "t">>
Vendor == <<"v", "e", "n", "d", "o", "r">>
NodeModules == <<"n", "o", "d", "e", "_", "m", "o", "d", "u", "l", "e", "s">>
SrcName == <<"s", "r", "c">>
AGo == <<"a", ".", "g", "o">>
OutputTxt == <<"o", "u", "t", "p", "u", "t", ".", "t", "x", "t">>
ExtGo == <<".", "g", "o">>
FileColon == <<"F", "i", "l", "e", ":", " ">>

\* the characters of the model in byte order
Alphabet ==
  <<"\n", " ", ",", ".", "/", ":", "=", "F", "M", "_", "a", "b", "c", "d",
    "e", "f", "g", "i", "k", "l", "m", "n", "o", "p", "r", "s", "t", "u",
    "v", "x", "y">>

Code(c) == CHOOSE i \in 1..Len(Alphabet) : Alphabet[i] = c

RECURSIVE Repeat(_, _)
Repeat(s, n) == IF n <= 0 THEN <<>> ELSE s \o Repeat(s, n - 1)

RECURSIVE Count(_, _)
Count(s, c) ==
  IF s = <<>> THEN 0
  ELSE (IF Head(s) = c THEN 1 ELSE 0) + Count(Tail(s), c)

RECURSIVE Concat(_)
Concat(ss) == IF ss = <<>> THEN <<>> ELSE Head(ss) \o Concat(Tail(ss))

Range(s) == {s[i] : i \in 1..Len(s)}

HasPrefix(s, p) == Len(s) >= Len(p) /\ SubSeq(s, 1, Len(p)) = p

\* byte-wise lexical order of two names
RECURSIVE LexLess(_, _)
LexLess(a, b) ==
  IF b = <<>> THEN FALSE
  ELSE IF a = <<>> THEN TRUE
  ELSE IF Head(a) = Head(b) THEN LexLess(Tail(a), Tail(b))
  ELSE Code(Head(a)) < Code(Head(b))

\* filepath.Ext: the suffix beginning at the final dot; empty if no dot
RECURSIVE ExtFrom(_, _)
ExtFrom(name, i) ==
  IF i < 1 THEN <<>>
  ELSE IF name[i] = "/" THEN <<>>
  ELSE IF name[i] = "." THEN SubSeq(name, i, Len(name))
  ELSE ExtFrom(name, i - 1)

Ext(name) == ExtFrom(name, Len(name))

\* strings.TrimSpace on the blanks of the model
RECURSIVE TrimSpace(_)
TrimSpace(s) ==
  IF s = <<>> THEN s
  ELSE IF Head(s) = " " THEN TrimSpace(Tail(s))
  ELSE IF s[Len(s)] = " " THEN TrimSpace(SubSeq(s, 1, Len(s) - 1))
  ELSE s

\* strings.Split(s, ",")
RECURSIVE Split(_)
Split(s) ==
  IF "," \notin Range(s) THEN <<s>>
  ELSE LET i == CHOOSE j \in 1..Len(s) :
                  s[j] = "," /\ \A k \in 1..(j - 1) : s[k] # ","
       IN <<SubSeq(s, 1, i - 1)>> \o Split(SubSeq(s, i + 1, Len(s)))

\* ------------------------------------------------------------------ inputs
\* names of the directories and of the files of the fixture
DirNames == {DotGit, Vendor, NodeModules, SrcName}
FileNames == {AGo, DotGit, Vendor}
Contents == {<<"x">>, <<"x", "y">>}
\* base name of the root directory as the walk sees it (d.Name() at the root)
CwdNames == {SrcName, Vendor}
\* root names handed directly to buildDirectoryStructure
RootNames == {Dot, DotGit}
\* values of the -exclude flag
ExcludeFlags == {<<>>, ExtGo \o <<",", " ">> \o DotGit}
\* exclusion sets handed directly to buildDirectoryStructure
ExcludeLists == SUBSET {<<>>, ExtGo}
\* (toggle, threshold) settings
SizeSettings ==
  {<<FALSE, DefaultMaxSize>>} \cup {<<TRUE, t>> : t \in 1..MaxSizeLimit}

EmptyMap == [k \in {} |-> <<>>]

\* inputs of writeOutput when it is exercised on its own
SerKeys == {AGo, SrcName \o Slash \o AGo, DotGit}
SerTrees == {<<>>, AGo \o NL}
SerMaps ==
  UNION {[K -> Contents \cup {<<>>}] :
           K \in {S \in SUBSET SerKeys : Cardinality(S) <= MaxSerFiles}}

VARIABLES
  pc,               \* position of the program
  mode,             \* entry point: "main", "test" (direct call), "ser"
  fs,               \* filesystem below the root: path -> [kind, content]
  rootName,         \* d.Name() of the root directory
  excludeExtensions,\* value of the -exclude flag
  excludeList, includeSizeLimit, sizeLimit,
  isGit,            \* result of isGitRoot: "unknown", "yes", "no"
  gitCmd,           \* git rev-parse: "notrun", "ok", "failed"
  outCreated,       \* os.Create succeeded
  todo,             \* WalkDir: paths still to visit, in visiting order
  walkErr,          \* WalkDir: "nil" or "err"
  dirStructure,     \* strings.Builder of the tree
  fileContents,     \* map relPath -> content
  lined,            \* paths for which a tree line was appended, in order
  faulted,          \* some filesystem operation of the walk failed
  collected,        \* entries had been collected when the walk failed
  ret,              \* what buildDirectoryStructure returned
  order,            \* keys of the map in the order writeOutput ranged them
  issued,           \* bytes handed to io.WriteString, in order
  out,              \* bytes the sink accepted
  sinkOK,           \* the sink still accepts writes
  writeFailed,      \* some io.WriteString returned an error
  writeRet,         \* error returned by writeOutput: "none", "nil", "err"
  prevIssued,       \* stream of the previous execution of writeOutput
  runs,             \* completed executions of writeOutput
  exitCode,         \* -1 while running, else the exit status
  printed           \* the success message was printed

vars ==
  <<pc, mode, fs, rootName, excludeExtensions, excludeList, includeSizeLimit, sizeLimit, isGit,
    gitCmd, outCreated, todo, walkErr, dirStructure, fileContents, lined, faulted,
    collected, ret, order, issued, out, sinkOK, writeFailed, writeRet,
    prevIssued, runs, exitCode, printed>>

cfgVars == <<rootName, excludeExtensions, excludeList, includeSizeLimit, sizeLimit>>
walkVars == <<todo, walkErr, dirStructure, fileContents, lined, faulted, collected>>
writeVars == <<order, issued, out, sinkOK, writeFailed, writeRet, prevIssued, runs>>
mainVars == <<isGit, gitCmd, outCreated, exitCode, printed>>

NoRet == [tree |-> <<>>, files |-> EmptyMap, filesNil |-> TRUE, err |-> "none"]

Init ==
  /\ pc = "setup"
  /\ mode = "none"
  /\ fs = EmptyMap
  /\ rootName = Dot
  /\ excludeExtensions = <<>>
  /\ excludeList = {}
  /\ includeSizeLimit = FALSE
  /\ sizeLimit = DefaultMaxSize
  /\ isGit = "unknown"
  /\ gitCmd = "notrun"
  /\ outCreated = FALSE
  /\ todo = <<>>
  /\ walkErr = "nil"
  /\ dirStructure = <<>>
  /\ fileContents = EmptyMap
  /\ lined = <<>>
  /\ faulted = FALSE
  /\ collected = FALSE
  /\ ret = NoRet
  /\ order = <<>>
  /\ issued = <<>>
  /\ out = <<>>
  /\ sinkOK = TRUE
  /\ writeFailed = FALSE
  /\ writeRet = "none"
  /\ prevIssued = <<>>
  /\ runs = 0
  /\ exitCode = -1
  /\ printed = FALSE

\* ------------------------------------------------------------- filesystem
IsDirAt(p) == p = <<>> \/ (p \in DOMAIN fs /\ fs[p].kind = "dir")
Dirs == {<<>>} \cup {p \in DOMAIN fs : fs[p].kind = "dir"}
Put(f, p, e) == [q \in DOMAIN f \cup {p} |-> IF q = p THEN e ELSE f[q]]

\* os.MkdirAll of the fixture
Mkdir ==
  /\ pc = "setup"
  /\ Cardinality(DOMAIN fs) < MaxEntries
  /\ \E parent \in Dirs, name \in DirNames :
       /\ Append(parent, name) \notin DOMAIN fs
       /\ fs' = Put(fs, Append(parent, name), [kind |-> "dir", content |-> <<>>])
  /\ UNCHANGED <<pc, mode, cfgVars, walkVars, ret, writeVars, mainVars>>

\* os.WriteFile of the fixture
WriteFile ==
  /\ pc = "setup"
  /\ Cardinality(DOMAIN fs) < MaxEntries
  /\ \E parent \in Dirs, name \in FileNames, content \in Contents :
       /\ Append(parent, name) \notin DOMAIN fs
       /\ fs' = Put(fs, Append(parent, name), [kind |-> "file", content |-> content])
  /\ UNCHANGED <<pc, mode, cfgVars, walkVars, ret, writeVars, mainVars>>


\* ------------------------------------------------------------------- main
Exit(code) ==
  /\ pc' = "done"
  /\ exitCode' = code

\* flag.Parse: the options become the process-wide variables
MainStart ==
  /\ pc = "setup"
  /\ \E flag \in ExcludeFlags, size \in SizeSettings :
       /\ excludeExtensions' = flag
       /\ includeSizeLimit' = size[1]
       /\ sizeLimit' = size[2]
  /\ mode' = "main"
  /\ pc' = "isGitRoot"
  /\ UNCHANGED <<fs, rootName, excludeList, walkVars, ret, writeVars, mainVars>>

\* variant: the check is taken to succeed whatever the two probes say
IsGitRootAlways(statOK, cmdOK) == TRUE

\* isGitRoot: os.Stat(".git") succeeds, or else the git command does
IsGitRoot(statOK, cmdOK) == IF statOK THEN TRUE ELSE cmdOK

MainCheckGitRoot ==
  /\ pc = "isGitRoot"
  /\ \E cmdOK \in BOOLEAN :
       /\ gitCmd' = IF <<DotGit>> \in DOMAIN fs THEN "notrun"
                    ELSE IF cmdOK THEN "ok" ELSE "failed"
       /\ IF IsGitRoot(<<DotGit>> \in DOMAIN fs, cmdOK)
          THEN /\ isGit' = "yes"
               /\ pc' = "getwd"
               /\ UNCHANGED exitCode
          ELSE /\ isGit' = "no"
               /\ Exit(1)
  /\ UNCHANGED <<mode, fs, cfgVars, walkVars, ret, writeVars, outCreated, printed>>

\* the exclusion list of main: "" always, plus the trimmed tokens of the flag
BuildExcludeList(flag) ==
  {<<>>} \cup (IF flag # <<>>
               THEN {TrimSpace(Split(flag)[i]) : i \in 1..Len(Split(flag))}
               ELSE {})

MainGetwd ==
  /\ pc = "getwd"
  /\ \E ok \in BOOLEAN, name \in CwdNames :
       IF ok
       THEN /\ rootName' = name
            /\ excludeList' = BuildExcludeList(excludeExtensions)
            /\ pc' = "create"
            /\ UNCHANGED exitCode
       ELSE /\ Exit(1)
            /\ UNCHANGED <<rootName, excludeList>>
  /\ UNCHANGED <<mode, fs, excludeExtensions, includeSizeLimit, sizeLimit,
                 walkVars, ret, writeVars, isGit, gitCmd, outCreated, printed>>

\* os.Create(outputFilename): the file appears, empty, in the working tree
MainCreate ==
  /\ pc = "create"
  /\ \E ok \in BOOLEAN :
       IF ok /\ ~IsDirAt(<<OutputTxt>>)
       THEN /\ fs' = Put(fs, <<OutputTxt>>, [kind |-> "file", content |-> <<>>])
            /\ outCreated' = TRUE
            /\ pc' = "build"
            /\ UNCHANGED exitCode
       ELSE /\ Exit(1)
            /\ UNCHANGED <<fs, outCreated>>
  /\ UNCHANGED <<mode, cfgVars, walkVars, ret, writeVars, isGit, gitCmd, printed>>

\* TestBuildDirectoryStructure: buildDirectoryStructure called with its own
\* arguments
TestStart ==
  /\ pc = "setup"
  /\ \E name \in RootNames, excl \in ExcludeLists, size \in SizeSettings :
       /\ rootName' = name
       /\ excludeList' = excl
       /\ includeSizeLimit' = size[1]
       /\ sizeLimit' = size[2]
  /\ mode' = "test"
  /\ pc' = "build"
  /\ UNCHANGED <<fs, excludeExtensions, walkVars, ret, writeVars, mainVars>>

\* ------------------------------------------------ buildDirectoryStructure
BuildStart ==
  /\ pc = "build"
  /\ dirStructure' = <<>>
  /\ fileContents' = EmptyMap
  /\ todo' = << <<>> >>
  /\ walkErr' = "nil"
  /\ pc' = "walk"
  /\ UNCHANGED <<mode, fs, cfgVars, lined, faulted, collected, ret,
                 writeVars, mainVars>>

\* the fs.DirEntry of a path
DirEntryOf(path) ==
  IF path = <<>>
  THEN [name |-> rootName, isDir |-> TRUE, size |-> 0, content |-> <<>>]
  ELSE [name |-> path[Len(path)], isDir |-> fs[path].kind = "dir",
        size |-> Len(fs[path].content), content |-> fs[path].content]

\* filepath.Rel(rootDir, path)
RECURSIVE Join(_)
Join(path) ==
  IF Len(path) = 1 THEN path[1]
  ELSE path[1] \o Slash \o Join(Tail(path))

Rel(path) == IF path = <<>> THEN Dot ELSE Join(path)

IsHiddenDir(d) ==
  d.isDir /\ HasPrefix(d.name, Dot) /\ d.name # Dot /\ d.name # DotSlash

\* variant: "vendor" is missing from the list of dependency directories
IsDependencyDirNoVendor(d) == d.isDir /\ d.name = NodeModules

IsDependencyDir(d) ==
  d.isDir /\ (d.name = NodeModules \/ d.name = Vendor)

\* variant: the extension is looked up without its leading dot
ExcludedNoDot(name, excl) == SubSeq(Ext(name), 2, Len(Ext(name))) \in excl

Excluded(name, excl) == Ext(name) \in excl

\* variant: the threshold is taken in kilobytes
OverLimitKilobytes(d, toggle, limit) == toggle /\ d.size > limit * 1024

OverLimit(d, toggle, limit) == toggle /\ d.size > limit

Indent(relPath) == Repeat(Repeat(<<" ">>, IndentWidth), Count(relPath, "/"))

\* the callback handed to filepath.WalkDir; io names the operation of this
\* call that fails ("info": d.Info, "read": os.ReadFile), if any
WalkFn(path, d, err, io) ==
  LET same == [tree |-> dirStructure, files |-> fileContents, lined |-> lined]
      relPath == Rel(path)
      line == Indent(relPath) \o d.name
  IN
  IF err THEN [ret |-> "err"] @@ same
  ELSE IF IsHiddenDir(d) THEN [ret |-> "SkipDir"] @@ same
  ELSE IF IsDependencyDir(d) THEN [ret |-> "SkipDir"] @@ same
  ELSE IF d.isDir
    THEN [ret |-> "nil", tree |-> dirStructure \o line \o Slash \o NL,
          files |-> fileContents, lined |-> Append(lined, path)]
  ELSE IF Excluded(d.name, excludeList) THEN [ret |-> "nil"] @@ same
  ELSE IF includeSizeLimit /\ io = "info" THEN [ret |-> "err"] @@ same
  ELSE IF OverLimit(d, includeSizeLimit, sizeLimit) THEN [ret |-> "nil"] @@ same
  ELSE IF io = "read"
    THEN [ret |-> "err", tree |-> dirStructure \o line \o NL,
          files |-> fileContents, lined |-> Append(lined, path)]
  ELSE [ret |-> "nil", tree |-> dirStructure \o line \o NL,
        files |-> (relPath :> d.content) @@ fileContents,
        lined |-> Append(lined, path)]

\* os.ReadDir: the entries of a directory sorted by name
Children(path) ==
  {q \in DOMAIN fs : Len(q) = Len(path) + 1 /\ SubSeq(q, 1, Len(path)) = path}

RECURSIVE SortPaths(_)
SortPaths(S) ==
  IF S = {} THEN <<>>
  ELSE LET m == CHOOSE p \in S :
                  \A q \in S \ {p} : LexLess(p[Len(p)], q[Len(q)])
       IN <<m>> \o SortPaths(S \ {m})

ReadDir(path) == SortPaths(Children(path))

Faults == {"none", "lstat", "readdir", "info", "read"}

\* one step of filepath.WalkDir: the callback for the next entry and, for a
\* directory it did not skip, the listing of its children
Visit ==
  /\ pc = "walk"
  /\ walkErr = "nil"
  /\ todo # <<>>
  /\ \E fault \in Faults :
       LET path == Head(todo)
           d == DirEntryOf(path)
           first == WalkFn(path, d, path = <<>> /\ fault = "lstat", fault)
           listFails == first.ret = "nil" /\ d.isDir /\ fault = "readdir"
           r == IF listFails THEN [first EXCEPT !.ret = "err"] ELSE first
       IN
       /\ dirStructure' = r.tree
       /\ fileContents' = r.files
       /\ lined' = r.lined
       /\ walkErr' = IF r.ret = "err" THEN "err" ELSE "nil"
       /\ faulted' = (faulted \/ r.ret = "err")
       /\ collected' = (collected \/ (r.ret = "err" /\ DOMAIN fileContents # {}))
       /\ todo' = IF r.ret = "nil" /\ d.isDir
                  THEN ReadDir(path) \o Tail(todo)
                  ELSE Tail(todo)
  /\ UNCHANGED <<pc, mode, fs, cfgVars, ret, writeVars, mainVars>>

\* variant: what was collected so far is returned along with the error
BuildResultPartial(err, tree, files) ==
  [tree |-> tree, files |-> files, filesNil |-> FALSE,
   err |-> IF err = "err" THEN "err" ELSE "nil"]

\* lines 155-159: the values buildDirectoryStructure returns
BuildResult(err, tree, files) ==
  IF err = "err"
  THEN [tree |-> <<>>, files |-> EmptyMap, filesNil |-> TRUE, err |-> "err"]
  ELSE [tree |-> tree, files |-> files, filesNil |-> FALSE, err |-> "nil"]

\* the walk has ended, with an error or with nothing left to visit
BuildReturn ==
  /\ pc = "walk"
  /\ (walkErr = "err" \/ todo = <<>>)
  /\ ret' = BuildResult(walkErr, dirStructure, fileContents)
  /\ pc' = "built"
  /\ UNCHANGED <<mode, fs, cfgVars, walkVars, writeVars, mainVars>>

\* writeDirectoryStructure, lines 96-99, and main, lines 72-75: an error of
\* the walk ends the run; otherwise the result goes to writeOutput
WriteDirectoryStructure ==
  /\ pc = "built"
  /\ mode = "main"
  /\ IF ret.err = "err"
     THEN Exit(1)
     ELSE /\ pc' = "write"
          /\ UNCHANGED exitCode
  /\ UNCHANGED <<mode, fs, cfgVars, walkVars, ret, writeVars, isGit, gitCmd,
                 outCreated, printed>>

\* ------------------------------------------------------------ writeOutput
\* variant: a separator line one character short
SepLineShort == Repeat(<<"=">>, SepWidth - 1) \o NL

SepLine == Repeat(<<"=">>, SepWidth) \o NL

\* the five io.WriteString calls of one iteration of the loop
Block(relPath, content) ==
  <<SepLine, FileColon \o relPath \o NL, SepLine, content, NL \o NL>>

\* the calls are issued in order; the first n of them reach the sink, the
\* others fail, and nothing looks at their results
WriteStrings(calls, n) ==
  /\ issued' = issued \o Concat(calls)
  /\ out' = out \o Concat(SubSeq(calls, 1, n))
  /\ sinkOK' = (sinkOK /\ n = Len(calls))
  /\ writeFailed' = (writeFailed \/ n < Len(calls))

\* lines 163-164
WriteTree ==
  /\ pc = "write"
  /\ \E n \in 0..2 :
       /\ (sinkOK \/ n = 0)
       /\ WriteStrings(<<ret.tree, NL>>, n)
  /\ pc' = "blocks"
  /\ UNCHANGED <<mode, fs, cfgVars, walkVars, ret, order, writeRet,
                 prevIssued, runs, mainVars>>

\* lines 165-171: one iteration of the range over the map, which yields the
\* keys in an order the runtime chooses
WriteBlock ==
  /\ pc = "blocks"
  /\ \E relPath \in DOMAIN ret.files \ Range(order), n \in 0..5 :
       /\ (sinkOK \/ n = 0)
       /\ WriteStrings(Block(relPath, ret.files[relPath]), n)
       /\ order' = Append(order, relPath)
  /\ UNCHANGED <<pc, mode, fs, cfgVars, walkVars, ret, writeRet, prevIssued,
                 runs, mainVars>>

\* error returned by writeOutput, line 172
WriteOutputResult(failed) == "nil"

\* line 172, then line 99 and main, lines 72-77
WriteReturn ==
  /\ pc = "blocks"
  /\ Range(order) = DOMAIN ret.files
  /\ writeRet' = WriteOutputResult(writeFailed)
  /\ runs' = runs + 1
  /\ IF mode = "main"
     THEN IF writeRet' = "nil"
          THEN /\ printed' = TRUE
               /\ Exit(0)
          ELSE /\ Exit(1)
               /\ UNCHANGED printed
     ELSE /\ pc' = "returned"
          /\ UNCHANGED <<exitCode, printed>>
  /\ UNCHANGED <<mode, fs, cfgVars, walkVars, ret, order, issued, out,
                 sinkOK, writeFailed, prevIssued, isGit, gitCmd, outCreated>>

\* writeOutput is called once more with the same arguments and a fresh sink
SecondRun ==
  /\ pc = "returned"
  /\ mode = "ser"
  /\ runs = 1
  /\ prevIssued' = issued
  /\ order' = <<>>
  /\ issued' = <<>>
  /\ out' = <<>>
  /\ sinkOK' = TRUE
  /\ writeFailed' = FALSE
  /\ writeRet' = "none"
  /\ pc' = "write"
  /\ UNCHANGED <<mode, fs, cfgVars, walkVars, ret, runs, mainVars>>

Next ==
  \/ Mkdir \/ WriteFile \/ MainStart \/ MainCheckGitRoot \/ MainGetwd
  \/ MainCreate \/ TestStart \/ BuildStart \/ Visit \/ BuildReturn
  \/ WriteDirectoryStructure \/ WriteTree \/ WriteBlock \/ WriteReturn

Spec == Init /\ [][Next]_vars

\* writeOutput on its own: any tree text and any map, executed twice
InitSer ==
  /\ pc = "write"
  /\ mode = "ser"
  /\ \E tree \in SerTrees, files \in SerMaps :
       ret = [tree |-> tree, files |-> files, filesNil |-> FALSE, err |-> "nil"]
  /\ fs = EmptyMap
  /\ rootName = Dot
  /\ excludeExtensions = <<>>
  /\ excludeList = {}
  /\ includeSizeLimit = FALSE
  /\ sizeLimit = DefaultMaxSize
  /\ isGit = "unknown"
  /\ gitCmd = "notrun"
  /\ outCreated = FALSE
  /\ todo = <<>>
  /\ walkErr = "nil"
  /\ dirStructure = <<>>
  /\ fileContents = EmptyMap
  /\ lined = <<>>
  /\ faulted = FALSE
  /\ collected = FALSE
  /\ order = <<>>
  /\ issued = <<>>
  /\ out = <<>>
  /\ sinkOK = TRUE
  /\ writeFailed = FALSE
  /\ writeRet = "none"
  /\ prevIssued = <<>>
  /\ runs = 0
  /\ exitCode = -1
  /\ printed = FALSE

NextSer == WriteTree \/ WriteBlock \/ WriteReturn \/ SecondRun

SpecSer == InitSer /\ [][NextSer]_vars
\* =================================================================== claims
Last(p) == p[Len(p)]
Under(a, p) == Len(p) >= Len(a) /\ SubSeq(p, 1, Len(a)) = a
Files == {p \in DOMAIN fs : fs[p].kind = "file"}

\* a name that marks a directory for pruning
PrunedName(n) == n[1] = "." \/ n = NodeModules \/ n = Vendor

\* the directories other than the root that carry such a name
PrunedDirs == {p \in DOMAIN fs : fs[p].kind = "dir" /\ PrunedName(Last(p))}

\* the extension of a name: from its last "." on, or empty without a "."
DotPositions(n) == {i \in 1..Len(n) : n[i] = "."}
ExtensionOf(n) ==
  IF DotPositions(n) = {} THEN <<>>
  ELSE SubSeq(n, CHOOSE i \in DotPositions(n) : \A j \in DotPositions(n) : j <= i,
              Len(n))

Recorded(p) ==
  \/ p \in Range(lined)
  \/ Rel(p) \in DOMAIN fileContents
  \/ Rel(p) \in DOMAIN ret.files

WalkDone == pc = "built" /\ ret.err = "nil"

\* the files the walk is to retain
Retained ==
  {p \in Files :
     /\ ~\E a \in PrunedDirs : Under(a, p)
     /\ ExtensionOf(Last(p)) \notin excludeList
     /\ (includeSizeLimit => Len(fs[p].content) <= sizeLimit)}

\* C1: a directory other than the root named ".*", "node_modules" or
\* "vendor" is never recorded, and neither is anything below it: no tree
\* line, no key of the map, whatever the exclusion set and size limit.
C1_PrunedSubtreesAbsent ==
  \A a \in PrunedDirs : \A p \in DOMAIN fs : Under(a, p) => ~Recorded(p)

\* a finished walk that went through the root next to a pruned directory
\* holding an entry
C1_Witness ==
  /\ WalkDone
  /\ <<>> \in Range(lined)
  /\ \E a \in PrunedDirs : \E p \in DOMAIN fs : Under(a, p) /\ p # a

\* C2: a file whose extension is in the exclusion set (the empty extension
\* included) gets no key in the map and no tree line.
C2_ExcludedExtensionsAbsent ==
  \A p \in Files : ExtensionOf(Last(p)) \in excludeList => ~Recorded(p)

\* a finished walk that met an excluded file in a directory it listed, next
\* to a file it kept
C2_Witness ==
  /\ WalkDone
  /\ \E p \in Files :
       /\ ExtensionOf(Last(p)) \in excludeList
       /\ SubSeq(p, 1, Len(p) - 1) \in Range(lined)
  /\ DOMAIN ret.files # {}

C4_ExactlyTheRetainedFiles ==
  WalkDone =>
    /\ DOMAIN ret.files = {Rel(p) : p \in Retained}
    /\ \A p \in Retained :
         /\ ret.files[Rel(p)] = fs[p].content
         /\ Cardinality({i \in 1..Len(lined) : lined[i] = p}) = 1

\* C5: a failed filesystem operation ends the walk at that entry; the call
\* returns the error with an empty tree and no map, and in main nothing is
\* written to the sink and the error is what the run ends with.
C5_WalkErrorAborts ==
  faulted =>
    /\ walkErr = "err"
    /\ pc \in {"walk", "built", "done"}
    /\ pc # "walk" =>
         /\ ret.err = "err"
         /\ ret.tree = <<>>
         /\ ret.filesNil
         /\ DOMAIN ret.files = {}
    /\ issued = <<>>
    /\ out = <<>>
    /\ pc = "done" => exitCode = 1 /\ ~printed

\* a run of main that failed after it had collected a file
C5_Witness ==
  /\ mode = "main"
  /\ pc = "done"
  /\ faulted
  /\ collected

\* the separator line, written out
SeparatorLine ==
  <<
    "=", "=", "=", "=", "=", "=", "=", "=", "=", "=", "=", "=",
    "=", "=", "=", "=", "=", "=", "=", "=", "=", "=", "=", "=",
    "=", "=", "=", "=", "=", "=", "=", "=", "=", "=", "=", "=",
    "=", "=", "=", "=", "=", "=", "=", "=", "=", "=", "=", "=">> \o <<"\n">>

\* the stream for the keys taken in the given order
RECURSIVE BlocksOf(_, _)
BlocksOf(files, keys) ==
  IF keys = <<>> THEN <<>>
  ELSE SeparatorLine
       \o <<"F", "i", "l", "e", ":", " ">> \o Head(keys) \o <<"\n">>
       \o SeparatorLine
       \o files[Head(keys)]
       \o <<"\n", "\n">>
       \o BlocksOf(files, Tail(keys))

\* C6: writeOutput writes the tree, one newline, and then one block per key
\* of the map and nothing else; a block is the separator line, "File: p",
\* the separator line, the content, and two newlines.
C6_OutputFormat ==
  writeRet # "none" =>
    /\ Range(order) = DOMAIN ret.files
    /\ Len(order) = Cardinality(DOMAIN ret.files)
    /\ issued = ret.tree \o <<"\n">> \o BlocksOf(ret.files, order)
    /\ ~writeFailed => out = issued

\* writeOutput has returned from a tree and a map of two files
C6_Witness ==
  /\ writeRet # "none"
  /\ ret.tree # <<>>
  /\ Cardinality(DOMAIN ret.files) = 2
  /\ ~writeFailed

\* C7: when a write to the sink fails, writeOutput returns an error and the
\* run ends with a non-zero status and without the success message.
C7_WriteFailureSurfaced ==
  (writeFailed /\ writeRet # "none") =>
    /\ writeRet = "err"
    /\ pc = "done" => exitCode # 0 /\ ~printed

\* C8: outside a working tree (no ".git" entry, the git command fails) the
\* run ends with status 1 before the output file is created and before the
\* walk; the file is created and the tree walked only after the check
\* succeeded.
C8_GitCheckComesFirst ==
  mode = "main" =>
    /\ (pc # "isGitRoot" /\ <<DotGit>> \notin DOMAIN fs /\ gitCmd = "failed") =>
         /\ pc = "done"
         /\ exitCode = 1
         /\ ~outCreated
         /\ <<OutputTxt>> \notin DOMAIN fs
         /\ lined = <<>>
         /\ ret = NoRet
    /\ (outCreated \/ pc \in {"build", "walk", "built", "write", "blocks"}) =>
         isGit = "yes"

\* a run that ended at the check although there was a tree to walk
C8_Witness ==
  /\ mode = "main"
  /\ pc = "done"
  /\ gitCmd = "failed"
  /\ exitCode = 1
  /\ DOMAIN fs # {}

\* C9: two executions of writeOutput on the same tree and the same map
\* write the same stream.
C9_SameStreamTwice ==
  runs = 2 => issued = prevIssued

\* C10: whatever the name of the root, the walk records the root and
\* descends into it, so that the retained files below it are in the tree
\* and in the map.
C10_RootNeverPruned ==
  WalkDone =>
    /\ <<>> \in Range(lined)
    /\ \A p \in Retained : p \in Range(lined) /\ Rel(p) \in DOMAIN ret.files
====
